---- MODULE Spec2Model ----
(***************************************************************************)
(* Cumulative histogram by map / reduce / scan (src/main.cpp): the driver  *)
(* main, parallel_solution (oneTBB parallel_for, parallel_reduce,          *)
(* parallel_scan) and sequential_solution.                                 *)
(*                                                                         *)
(* C++ arrays and vectors are functions over 0..n-1, so the index          *)
(* arithmetic of the source is kept as written.  All quantities stay far   *)
(* below 2^31, so int arithmetic is exact.                                 *)
(***************************************************************************)
EXTENDS Integers, Sequences, FiniteSets, TLC

\* main.cpp:279, const int MAX_VALUE = 120
MAX_VALUE == 120

\* Longest generated input vector of the pipeline specification.
MaxLen == 3
\* Largest bin count of the pipeline specification (the source's NUM_BINS is 4).
MaxBins == 4
\* Largest bin count of the binning specification.
MaxBinCount == 7
\* Largest bin span handed to the map computation besides BIN_SPAN itself.
MaxSpan == 40

\* Values the generated input vectors are drawn from: the ends of the value
\* domain and the values on either side of a bin boundary for 3 and 4 bins.
SampleValues == {0, 30, 31, 40, 41, 120}

\* A C++ array initialised from a list.
Arr(s) == [i \in 0..(Len(s) - 1) |-> s[i + 1]]

ExampleInput == Arr(<<0, 7, 8, 10, 24, 48, 73, 120>>)

VARIABLES
    pc,                        \* position in main / the two solutions
    NUM_BINS,                  \* the bin count K
    values,                    \* the input vector
    BIN_SPAN,                  \* main's BIN_SPAN
    bin_range_values,          \* main's bin_range_values
    bin_span,                  \* the bin_span argument of the map computation
    idx,                       \* idx of the map computation (binning specification)
    mapped_values,             \* parallel_solution: mapped_values
    mapTasks,                  \* parallel_for: subranges not yet finished
    mapWrites,                 \* number of writes to each mapped_values[i]
    redItems,                  \* parallel_reduce: subranges and partial results
    bins,                      \* parallel_solution: bins
    scanItems,                 \* parallel_scan: subranges and their passes
    cumulative_histogram,      \* parallel_solution: cumulative_histogram
    cumWrites,                 \* number of writes to each cumulative_histogram[i]
    seq_mapped_values,         \* sequential_solution: mapped_values
    seq_bins,                  \* sequential_solution: bins
    seq_cumulative_histogram   \* sequential_solution: cumulative_histogram

vars == <<pc, NUM_BINS, values, BIN_SPAN, bin_range_values, bin_span, idx,
          mapped_values, mapTasks, mapWrites, redItems, bins, scanItems,
          cumulative_histogram, cumWrites, seq_mapped_values, seq_bins,
          seq_cumulative_histogram>>

mainVars == <<NUM_BINS, values, BIN_SPAN, bin_range_values>>
mapVars == <<mapped_values, mapTasks, mapWrites>>
scanVars == <<scanItems, cumulative_histogram, cumWrites>>
seqVars == <<seq_mapped_values, seq_bins, seq_cumulative_histogram>>

----------------------------------------------------------------------------
(* Helpers for C++ values *)

Size(a) == Cardinality(DOMAIN a)

Range(a) == {a[i] : i \in DOMAIN a}

\* std::array<int, n>{} / std::vector<int>(n): n zeros
ZeroArr(n) == [j \in 0..(n - 1) |-> 0]

\* int / int of C++: the quotient truncated toward zero (b > 0)
CDiv(a, b) == IF a >= 0 THEN a \div b ELSE -((-a) \div b)

\* std::min on ints
StdMin(a, b) == IF b < a THEN b ELSE a

\* std::ceil of the rational num/den (den > 0), converted back to int
StdCeil(num, den) == -((-num) \div den)

\* std::sort: position p holds the value v with #{< v} <= p < #{<= v}
SortValues(a) ==
    [p \in DOMAIN a |->
        CHOOSE v \in Range(a) :
            /\ Cardinality({i \in DOMAIN a : a[i] < v}) <= p
            /\ p < Cardinality({i \in DOMAIN a : a[i] <= v})]

----------------------------------------------------------------------------
(* main: BIN_SPAN and the printed bin ranges *)

\* main.cpp:302: the int quotient MAX_VALUE / NUM_BINS is formed first and
\* std::ceil is applied to that (already integral) value.
BinSpan(K) == StdCeil(CDiv(MAX_VALUE, K), 1)

\* main.cpp:309-312
BinRangeValues(K, span) ==
    [i \in 0..(K - 1) |-> MAX_VALUE - (K - 1 - i) * span]

\* main.cpp:314-318: the lower end printed for bin i
Previous(brv, i) == IF i > 0 THEN brv[i - 1] + 1 ELSE 0

----------------------------------------------------------------------------
(* The map computation, main.cpp:77-81 and 196-200 *)

MapIndexNoClamp(v, span, K) ==
    LET val == IF v > 0 THEN v - 1 ELSE v
    IN  CDiv(val, span)

MapIndexNoAdjust(v, span, K) == StdMin(CDiv(v, span), K - 1)

MapIndex(v, span, K) ==
    LET val == IF v > 0 THEN v - 1 ELSE v
    IN  StdMin(CDiv(val, span), K - 1)

OneHotOffByOne(i, K) == [j \in 0..(K - 1) |-> IF j = i + 1 THEN 1 ELSE 0]

\* arr{} ; arr[idx]++
OneHot(i, K) == [j \in 0..(K - 1) |-> IF j = i THEN 1 ELSE 0]

----------------------------------------------------------------------------
(* blocked_range splitting, shared by the three parallel primitives *)

SplitRangeOverlap(lo, hi, mid) == {<<lo, mid + 1>>, <<mid, hi>>}

\* [lo, hi) is divided into [lo, mid) and [mid, hi)
SplitRange(lo, hi, mid) == {<<lo, mid>>, <<mid, hi>>}

----------------------------------------------------------------------------
(* Initial states *)

Inputs ==
    UNION {[0..(n - 1) -> SampleValues] : n \in 1..MaxLen} \cup {ExampleInput}

InitRest ==
    /\ pc = "main"
    /\ BIN_SPAN = 0
    /\ bin_range_values = << >>
    /\ bin_span = 0
    /\ idx = 0
    /\ mapped_values = << >>
    /\ mapTasks = {}
    /\ mapWrites = << >>
    /\ redItems = {}
    /\ bins = << >>
    /\ scanItems = {}
    /\ cumulative_histogram = << >>
    /\ cumWrites = << >>
    /\ seq_mapped_values = << >>
    /\ seq_bins = << >>
    /\ seq_cumulative_histogram = << >>

\* random_vector's result and the bin count, pipeline specification
Init ==
    /\ NUM_BINS \in 1..MaxBins
    /\ values \in Inputs
    /\ InitRest

----------------------------------------------------------------------------
(* main up to the call of parallel_solution *)

\* main.cpp:280-321
MainSetup ==
    /\ pc = "main"
    /\ values' = SortValues(values)
    /\ BIN_SPAN' = BinSpan(NUM_BINS)
    /\ bin_range_values' = BinRangeValues(NUM_BINS, BinSpan(NUM_BINS))
    /\ pc' = "call"
    /\ UNCHANGED <<NUM_BINS, bin_span, idx, mapVars, redItems, bins, scanVars, seqVars>>

\* main.cpp:327 and 67-72: the call, mapped_values(N), parallel_for over [0, N)
ParallelCall ==
    /\ pc = "call"
    /\ bin_span' = BIN_SPAN
    /\ mapped_values' = [i \in DOMAIN values |-> ZeroArr(NUM_BINS)]
    /\ mapWrites' = [i \in DOMAIN values |-> 0]
    /\ mapTasks' = {[lo |-> 0, hi |-> Size(values), i |-> 0]}
    /\ pc' = "p_map"
    /\ UNCHANGED <<mainVars, idx, redItems, bins, scanVars, seqVars>>

----------------------------------------------------------------------------
(* Stage 1, parallel_for (main.cpp:71-83) *)

\* the partitioner divides a subrange no worker has started on
MapSplit ==
    /\ pc = "p_map"
    /\ \E t \in mapTasks :
          /\ t.i = t.lo
          /\ \E mid \in (t.lo + 1)..(t.hi - 1) :
                mapTasks' = (mapTasks \ {t}) \cup
                    {[lo |-> r[1], hi |-> r[2], i |-> r[1]] :
                        r \in SplitRange(t.lo, t.hi, mid)}
    /\ UNCHANGED <<pc, mainVars, bin_span, idx, mapped_values, mapWrites,
                   redItems, bins, scanVars, seqVars>>

\* one iteration of the body's loop, main.cpp:75-82
MapStep ==
    /\ pc = "p_map"
    /\ \E t \in mapTasks :
          /\ t.i < t.hi
          /\ mapped_values' =
                [mapped_values EXCEPT
                    ![t.i] = OneHot(MapIndex(values[t.i], bin_span, NUM_BINS), NUM_BINS)]
          /\ mapWrites' = [mapWrites EXCEPT ![t.i] = @ + 1]
          /\ mapTasks' = (mapTasks \ {t}) \cup
                (IF t.i + 1 < t.hi THEN {[t EXCEPT !.i = @ + 1]} ELSE {})
    /\ UNCHANGED <<pc, mainVars, bin_span, idx, redItems, bins, scanVars, seqVars>>

\* parallel_for returns when every subrange has been processed
MapDone == mapTasks = {}

\* main.cpp:83 and 108-111: the join of parallel_for, then parallel_reduce
\* over [0, N) with the identity std::array<int, NUM_BINS>{}
MapJoin ==
    /\ pc = "p_map"
    /\ MapDone
    /\ redItems' = {[lo |-> 0, hi |-> Size(values), done |-> FALSE,
                     val |-> ZeroArr(NUM_BINS)]}
    /\ pc' = "p_reduce"
    /\ UNCHANGED <<mainVars, bin_span, idx, mapVars, bins, scanVars, seqVars>>

----------------------------------------------------------------------------
(* Stage 2, parallel_reduce (main.cpp:109-131) *)

\* the range body, main.cpp:112-122: total[j] += mapped_values[i][j] over r
RECURSIVE ReduceBody(_, _, _)
ReduceBody(lo, hi, total) ==
    IF lo >= hi THEN total
    ELSE ReduceBody(lo + 1, hi,
            [j \in 0..(NUM_BINS - 1) |-> total[j] + mapped_values[lo][j]])

ReduceCombineDropRight(left, right) == left

\* the reduction, main.cpp:123-131
ReduceCombine(left, right) ==
    [i \in 0..(NUM_BINS - 1) |-> left[i] + right[i]]

ReduceSplit ==
    /\ pc = "p_reduce"
    /\ \E t \in redItems :
          /\ ~t.done
          /\ \E mid \in (t.lo + 1)..(t.hi - 1) :
                redItems' = (redItems \ {t}) \cup
                    {[lo |-> r[1], hi |-> r[2], done |-> FALSE,
                      val |-> ZeroArr(NUM_BINS)] :
                        r \in SplitRange(t.lo, t.hi, mid)}
    /\ UNCHANGED <<pc, mainVars, bin_span, idx, mapVars, bins, scanVars, seqVars>>

\* a fresh body (total = identity) processes a subrange
ReduceLeaf ==
    /\ pc = "p_reduce"
    /\ \E t \in redItems :
          /\ ~t.done
          /\ redItems' = (redItems \ {t}) \cup
                {[t EXCEPT !.done = TRUE,
                           !.val = ReduceBody(t.lo, t.hi, ZeroArr(NUM_BINS))]}
    /\ UNCHANGED <<pc, mainVars, bin_span, idx, mapVars, bins, scanVars, seqVars>>

\* a body that has processed [p.lo, p.hi) goes on with the adjacent subrange
\* to its right, its accumulated value passed in as total
ReduceContinue ==
    /\ pc = "p_reduce"
    /\ \E p \in redItems, t \in redItems :
          /\ p.done /\ ~t.done /\ p.hi = t.lo
          /\ redItems' = (redItems \ {p, t}) \cup
                {[lo |-> p.lo, hi |-> t.hi, done |-> TRUE,
                  val |-> ReduceBody(t.lo, t.hi, p.val)]}
    /\ UNCHANGED <<pc, mainVars, bin_span, idx, mapVars, bins, scanVars, seqVars>>

\* two adjacent partial results are joined by the reduction
ReduceJoin ==
    /\ pc = "p_reduce"
    /\ \E p \in redItems, q \in redItems :
          /\ p.done /\ q.done /\ p.hi = q.lo
          /\ redItems' = (redItems \ {p, q}) \cup
                {[lo |-> p.lo, hi |-> q.hi, done |-> TRUE,
                  val |-> ReduceCombine(p.val, q.val)]}
    /\ UNCHANGED <<pc, mainVars, bin_span, idx, mapVars, bins, scanVars, seqVars>>

\* main.cpp:109 and 145-148: bins = the result; cumulative_histogram{};
\* parallel_scan over [0, NUM_BINS) with the identity 0
ReduceReturn ==
    /\ pc = "p_reduce"
    /\ \E t \in redItems :
          /\ redItems = {t}
          /\ t.done
          /\ bins' = t.val
    /\ redItems' = {}
    /\ cumulative_histogram' = ZeroArr(NUM_BINS)
    /\ cumWrites' = ZeroArr(NUM_BINS)
    /\ scanItems' = {[lo |-> 0, hi |-> NUM_BINS, known |-> FALSE, sum |-> 0,
                      phase |-> "idle", i |-> 0, total |-> 0]}
    /\ pc' = "p_scan"
    /\ UNCHANGED <<mainVars, bin_span, idx, mapVars, seqVars>>

----------------------------------------------------------------------------
(* Stage 3, parallel_scan (main.cpp:146-164) *)

\* the scan body's running total over [lo, hi), main.cpp:151-159
RECURSIVE ScanBody(_, _, _)
ScanBody(lo, hi, total) ==
    IF lo >= hi THEN total ELSE ScanBody(lo + 1, hi, total + bins[lo])

ScanCombineLeftOnly(x, y) == x

\* the combine, main.cpp:161-164
ScanCombine(x, y) == x + y

\* the subrange that ends where lo begins
LeftOf(lo) == CHOOSE c \in scanItems : c.hi = lo

\* whether the total of everything left of index lo is available: every
\* subrange to the left has finished its final pass or has been pre-scanned
RECURSIVE PrefixKnown(_)
PrefixKnown(lo) ==
    IF lo = 0 THEN TRUE
    ELSE \E c \in scanItems :
            /\ c.hi = lo
            /\ \/ c.phase = "done"
               \/ c.known /\ PrefixKnown(c.lo)

\* that total: the running total a finished final pass left behind, or the
\* pre-scan sums combined from the left
RECURSIVE Prefix(_)
Prefix(lo) ==
    IF lo = 0 THEN 0
    ELSE LET c == LeftOf(lo)
         IN  IF c.phase = "done" THEN c.total
             ELSE ScanCombine(Prefix(c.lo), c.sum)

ScanSplit ==
    /\ pc = "p_scan"
    /\ \E t \in scanItems :
          /\ t.phase = "idle" /\ ~t.known
          /\ \E mid \in (t.lo + 1)..(t.hi - 1) :
                scanItems' = (scanItems \ {t}) \cup
                    {[lo |-> r[1], hi |-> r[2], known |-> FALSE, sum |-> 0,
                      phase |-> "idle", i |-> r[1], total |-> 0] :
                        r \in SplitRange(t.lo, t.hi, mid)}
    /\ UNCHANGED <<pc, mainVars, bin_span, idx, mapVars, redItems, bins,
                   cumulative_histogram, cumWrites, seqVars>>

\* a pre-scan pass (is_final_scan = false) from the identity: only the sum
ScanPreScan ==
    /\ pc = "p_scan"
    /\ \E t \in scanItems :
          /\ t.phase = "idle" /\ ~t.known
          /\ scanItems' = (scanItems \ {t}) \cup
                {[t EXCEPT !.known = TRUE, !.sum = ScanBody(t.lo, t.hi, 0)]}
    /\ UNCHANGED <<pc, mainVars, bin_span, idx, mapVars, redItems, bins,
                   cumulative_histogram, cumWrites, seqVars>>

\* one iteration of a final pass (is_final_scan = true), main.cpp:151-158;
\* the pass starts once the total to its left is available
ScanFinalStep ==
    /\ pc = "p_scan"
    /\ \E t \in scanItems :
          /\ \/ t.phase = "final"
             \/ t.phase = "idle" /\ PrefixKnown(t.lo)
          /\ LET start == IF t.phase = "idle" THEN Prefix(t.lo) ELSE t.total
                 total == start + bins[t.i]
             IN  /\ cumulative_histogram' =
                        [cumulative_histogram EXCEPT ![t.i] = total]
                 /\ cumWrites' = [cumWrites EXCEPT ![t.i] = @ + 1]
                 /\ scanItems' = (scanItems \ {t}) \cup
                        {[t EXCEPT !.i = @ + 1, !.total = total,
                                   !.phase = IF t.i + 1 < t.hi THEN "final"
                                             ELSE "done"]}
    /\ UNCHANGED <<pc, mainVars, bin_span, idx, mapVars, redItems, bins, seqVars>>

ScanDoneEarly == \E t \in scanItems : t.phase = "done"

\* parallel_scan returns when every subrange had its final pass
ScanDone == \A t \in scanItems : t.phase = "done"

\* main.cpp:164-178 and 337: parallel_solution returns, main calls
\* sequential_solution
ScanJoin ==
    /\ pc = "p_scan"
    /\ ScanDone
    /\ scanItems' = {}
    /\ pc' = "s_map"
    /\ UNCHANGED <<mainVars, bin_span, idx, mapVars, redItems, bins,
                   cumulative_histogram, cumWrites, seqVars>>

----------------------------------------------------------------------------
(* sequential_solution (main.cpp:188-267), called with BIN_SPAN *)

\* main.cpp:193-201
SeqMap ==
    /\ pc = "s_map"
    /\ seq_mapped_values' =
          [i \in DOMAIN values |->
              OneHot(MapIndex(values[i], BIN_SPAN, NUM_BINS), NUM_BINS)]
    /\ pc' = "s_reduce"
    /\ UNCHANGED <<mainVars, bin_span, idx, mapVars, redItems, bins, scanVars,
                   seq_bins, seq_cumulative_histogram>>

\* bins after the rows 0..n-1 have been added, main.cpp:226-233
RECURSIVE SeqReduceLoop(_, _)
SeqReduceLoop(n, acc) ==
    IF n = 0 THEN acc
    ELSE LET b == SeqReduceLoop(n - 1, acc)
         IN  [j \in 0..(NUM_BINS - 1) |-> b[j] + seq_mapped_values[n - 1][j]]

SeqReduce ==
    /\ pc = "s_reduce"
    /\ seq_bins' = SeqReduceLoop(Size(seq_mapped_values), ZeroArr(NUM_BINS))
    /\ pc' = "s_scan"
    /\ UNCHANGED <<mainVars, bin_span, idx, mapVars, redItems, bins, scanVars,
                   seq_mapped_values, seq_cumulative_histogram>>

\* total after the bins 0..i have been added, main.cpp:248-253
RECURSIVE SeqScanTotal(_)
SeqScanTotal(i) == IF i < 0 THEN 0 ELSE SeqScanTotal(i - 1) + seq_bins[i]

SeqScan ==
    /\ pc = "s_scan"
    /\ seq_cumulative_histogram' = [i \in 0..(NUM_BINS - 1) |-> SeqScanTotal(i)]
    /\ pc' = "done"
    /\ UNCHANGED <<mainVars, bin_span, idx, mapVars, redItems, bins, scanVars,
                   seq_mapped_values, seq_bins>>

----------------------------------------------------------------------------
(* The pipeline specification *)

Next ==
    \/ MainSetup
    \/ ParallelCall
    \/ MapSplit
    \/ MapStep
    \/ MapJoin
    \/ ReduceSplit
    \/ ReduceLeaf
    \/ ReduceContinue
    \/ ReduceJoin
    \/ ReduceReturn
    \/ ScanSplit
    \/ ScanPreScan
    \/ ScanFinalStep
    \/ ScanJoin
    \/ SeqMap
    \/ SeqReduce
    \/ SeqScan

Spec == Init /\ [][Next]_vars

----------------------------------------------------------------------------
(* The binning specification: main's BIN_SPAN and printed ranges for every  *)
(* bin count up to MaxBinCount, and the map computation applied to every    *)
(* value of 0..MAX_VALUE.                                                   *)

\* a one-element input vector holding any value random_vector can produce
InitBin ==
    /\ NUM_BINS \in 1..MaxBinCount
    /\ values \in [0..0 -> 0..MAX_VALUE]
    /\ InitRest

\* main.cpp:77-78 (and 196-197) for values[0], with the span main passes or
\* any span of 1..MaxSpan
Binner ==
    /\ pc = "call"
    /\ \E s \in (1..MaxSpan) \cup {BIN_SPAN} :
          /\ bin_span' = s
          /\ idx' = MapIndex(values[0], s, NUM_BINS)
    /\ pc' = "binned"
    /\ UNCHANGED <<mainVars, mapVars, redItems, bins, scanVars, seqVars>>

NextBin ==
    \/ MainSetup
    \/ Binner

SpecBin == InitBin /\ [][NextBin]_vars

----------------------------------------------------------------------------
(* Vocabulary of the properties *)

\* a[0] + ... + a[i]
RECURSIVE SumUpTo(_, _)
SumUpTo(a, i) == IF i < 0 THEN 0 ELSE SumUpTo(a, i - 1) + a[i]

SumArr(a) == SumUpTo(a, Size(a) - 1)

\* the bin index as the specification states it:
\* clamp(floor((v > 0 ? v - 1 : v) / s), 0, K - 1)
ClampIndex(v, s, K) ==
    LET q == (IF v > 0 THEN v - 1 ELSE v) \div s
    IN  IF q < 0 THEN 0 ELSE IF q > K - 1 THEN K - 1 ELSE q

\* number of input values whose bin index is j / is at most j
CountBin(j) ==
    Cardinality({i \in DOMAIN values : ClampIndex(values[i], BIN_SPAN, NUM_BINS) = j})

CountUpToBin(j) ==
    Cardinality({i \in DOMAIN values : ClampIndex(values[i], BIN_SPAN, NUM_BINS) <= j})

\* ceil(a / b) over the rationals, b > 0
TrueCeil(a, b) == (a + b - 1) \div b

MaxOf(a) == CHOOSE m \in Range(a) : \A x \in Range(a) : x <= m

\* positions at which a result of parallel_solution / sequential_solution exists
ParReduced == pc \in {"p_scan", "s_map", "s_reduce", "s_scan", "done"}
ParScanned == pc \in {"s_map", "s_reduce", "s_scan", "done"}
SeqReduced == pc \in {"s_scan", "done"}
SeqScanned == pc = "done"

NonDecreasing(a) == \A i \in DOMAIN a : \A j \in DOMAIN a : i <= j => a[i] <= a[j]

\* two subranges share no index
Disjoint(a, b) == a.hi <= b.lo \/ b.hi <= a.lo

\* number of values of 0..MAX_VALUE the map computation sends to bin j
BinSize(j) ==
    Cardinality({v \in 0..MAX_VALUE : MapIndex(v, BIN_SPAN, NUM_BINS) = j})

\* value v lies in the range main prints for bin i
InPrintedRange(v, i) ==
    Previous(bin_range_values, i) <= v /\ v <= bin_range_values[i]

----------------------------------------------------------------------------
(* Properties *)

\* C1: for every input and bin count, whatever the chunking and the order of
\* execution and combination, parallel_solution and sequential_solution end
\* with the same histogram and the same cumulative histogram.
C1_ParallelEqualsSequential ==
    pc = "done" =>
        /\ bins = seq_bins
        /\ cumulative_histogram = seq_cumulative_histogram

C1_Witness ==
    /\ pc = "done"
    /\ Size(values) = 3
    /\ NUM_BINS = 4
    /\ bins = seq_bins
    /\ bins[0] = 1 /\ bins[1] = 1 /\ bins[3] = 1

\* C2: after the reduce stage histogram[j] is the number of input values
\* whose bin index is j, and after the scan stage cumulative[i] is the number
\* of input values whose bin index is at most i, in both variants; the input
\* [0,7,8,10,24,48,73,120] with 3 bins has span 40, histogram [5,2,1] and
\* cumulative histogram [5,7,8].
C2_EndToEnd ==
    /\ ParReduced => \A j \in 0..(NUM_BINS - 1) : bins[j] = CountBin(j)
    /\ ParScanned =>
          \A j \in 0..(NUM_BINS - 1) : cumulative_histogram[j] = CountUpToBin(j)
    /\ SeqReduced => \A j \in 0..(NUM_BINS - 1) : seq_bins[j] = CountBin(j)
    /\ SeqScanned =>
          \A j \in 0..(NUM_BINS - 1) : seq_cumulative_histogram[j] = CountUpToBin(j)
    /\ (pc = "done" /\ values = ExampleInput /\ NUM_BINS = 3) =>
          /\ BIN_SPAN = 40
          /\ bins = Arr(<<5, 2, 1>>)
          /\ cumulative_histogram = Arr(<<5, 7, 8>>)
          /\ seq_bins = Arr(<<5, 2, 1>>)
          /\ seq_cumulative_histogram = Arr(<<5, 7, 8>>)

C2_Witness ==
    /\ pc = "done"
    /\ values = ExampleInput
    /\ NUM_BINS = 3
    /\ bins = Arr(<<5, 2, 1>>)
    /\ cumulative_histogram = Arr(<<5, 7, 8>>)

\* C3: the entries of the histogram produced by the reduce stage sum to the
\* length N of the input, in both variants.
C3_HistogramSumsToN ==
    /\ ParReduced => SumArr(bins) = Size(values)
    /\ SeqReduced => SumArr(seq_bins) = Size(values)

C3_Witness ==
    /\ pc = "p_scan"
    /\ Size(values) = 3
    /\ NUM_BINS = 3
    /\ bins = Arr(<<1, 1, 1>>)

\* C4: the cumulative histogram produced by the scan stage is non-decreasing
\* in the bin index and its last entry equals N, in both variants.
C4_CumulativeMonotoneToN ==
    /\ ParScanned =>
          /\ NonDecreasing(cumulative_histogram)
          /\ cumulative_histogram[NUM_BINS - 1] = Size(values)
    /\ SeqScanned =>
          /\ NonDecreasing(seq_cumulative_histogram)
          /\ seq_cumulative_histogram[NUM_BINS - 1] = Size(values)

C4_Witness ==
    /\ pc = "s_map"
    /\ NUM_BINS = 4
    /\ cumulative_histogram = Arr(<<1, 2, 2, 3>>)

\* C5: the map computation gives value v >= 0, for a span s > 0 and K bins,
\* the index clamp(floor((v>0 ? v-1 : v) / s), 0, K-1), which lies in
\* 0..K-1; with 3 bins and span 40 the values 0, 40, 41, 120 get the
\* indices 0, 0, 1, 2.
C5_MapIndex ==
    pc = "binned" =>
        /\ idx = ClampIndex(values[0], bin_span, NUM_BINS)
        /\ idx \in 0..(NUM_BINS - 1)
        /\ (NUM_BINS = 3 /\ bin_span = 40) =>
              /\ values[0] = 0 => idx = 0
              /\ values[0] = 40 => idx = 0
              /\ values[0] = 41 => idx = 1
              /\ values[0] = 120 => idx = 2

\* a value whose quotient exceeds the last index, so that the clamp acts
C5_Witness ==
    /\ pc = "binned"
    /\ NUM_BINS = 3
    /\ bin_span = 17
    /\ values[0] = 120
    /\ idx = 2

\* C6: the bin span main computes equals the true ceiling of the maximum
\* value divided by the bin count.  "The maximum" is read either way: the
\* largest value allowed (MAX_VALUE, what the code divides) or the largest
\* element of the input.
C6_SpanIsTrueCeiling ==
    pc # "main" =>
        \/ BIN_SPAN = TrueCeil(MAX_VALUE, NUM_BINS)
        \/ BIN_SPAN = TrueCeil(MaxOf(values), NUM_BINS)

\* C7: over the values 0..MAX_VALUE, for every bin count, each bin receives
\* the same number of values, except that the first receives one more.
C7_BinsEqualInSize ==
    pc = "call" =>
        \A j \in 1..(NUM_BINS - 1) :
            /\ BinSize(j) = BinSize(NUM_BINS - 1)
            /\ BinSize(0) = BinSize(j) + 1

\* C7 as amended: for every bin count that divides MAX_VALUE, each bin but
\* the first receives BIN_SPAN values of 0..MAX_VALUE and the first receives
\* BIN_SPAN + 1 (it also holds 0).
C7_BinsEqualWhenDivisible ==
    (pc = "call" /\ MAX_VALUE % NUM_BINS = 0) =>
        /\ BinSize(0) = BIN_SPAN + 1
        /\ \A j \in 1..(NUM_BINS - 1) : BinSize(j) = BIN_SPAN

C7_Witness ==
    /\ pc = "call"
    /\ NUM_BINS = 4
    /\ BinSize(0) = 31
    /\ BinSize(1) = 30 /\ BinSize(2) = 30 /\ BinSize(3) = 30

\* C8: the two-pass parallel scan: every final pass starts from the sum of
\* all histogram entries to its left and keeps the running sum, every entry
\* written holds sum(histogram[0..i]), and when the scan has returned every
\* entry has been written by a final pass.
C8_ParallelScan ==
    /\ pc = "p_scan" =>
          /\ \A t \in scanItems :
                /\ (t.phase = "idle" /\ PrefixKnown(t.lo)) =>
                      Prefix(t.lo) = SumUpTo(bins, t.lo - 1)
                /\ t.phase \in {"final", "done"} =>
                      t.total = SumUpTo(bins, t.i - 1)
          /\ \A i \in 0..(NUM_BINS - 1) :
                cumWrites[i] >= 1 => cumulative_histogram[i] = SumUpTo(bins, i)
    /\ ParScanned =>
          \A i \in 0..(NUM_BINS - 1) :
              /\ cumWrites[i] >= 1
              /\ cumulative_histogram[i] = SumUpTo(bins, i)

\* a final pass that started right of a pre-scanned subrange
C8_Witness ==
    /\ pc = "p_scan"
    /\ NUM_BINS = 4
    /\ bins = Arr(<<1, 1, 0, 1>>)
    /\ \E s \in scanItems, t \in scanItems :
          /\ s.hi = t.lo
          /\ s.known /\ s.phase = "idle"
          /\ t.phase = "done" /\ t.total = 3

\* C9: the subranges of concurrently running workers never overlap, every
\* mapped_values[i] is written exactly once (by the worker whose subrange
\* holds i), every cumulative_histogram[i] is written exactly once by a
\* final pass, and the reduce stage runs only when no map worker is left.
C9_DisjointWrites ==
    /\ pc = "p_map" =>
          /\ \A s \in mapTasks, t \in mapTasks : s # t => Disjoint(s, t)
          /\ \A i \in DOMAIN values :
                mapWrites[i] =
                    IF \E t \in mapTasks : t.i <= i /\ i < t.hi THEN 0 ELSE 1
    /\ (pc = "p_reduce" \/ ParReduced) =>
          /\ mapTasks = {}
          /\ \A i \in DOMAIN values : mapWrites[i] = 1
    /\ pc = "p_scan" =>
          /\ \A s \in scanItems, t \in scanItems : s # t => Disjoint(s, t)
          /\ \A i \in 0..(NUM_BINS - 1) :
                cumWrites[i] =
                    IF \E t \in scanItems : t.i <= i /\ i < t.hi THEN 0 ELSE 1
    /\ ParScanned => \A i \in 0..(NUM_BINS - 1) : cumWrites[i] = 1

\* two workers in the middle of their subranges at the same time
C9_Witness ==
    /\ pc = "p_map"
    /\ \E s \in mapTasks, t \in mapTasks :
          /\ s # t
          /\ s.lo < s.i /\ s.i < s.hi
          /\ t.lo < t.i /\ t.i < t.hi

\* C10: for every bin count and every value v of 0..MAX_VALUE, the bin index
\* the map computation gives v (with the span main passes) is the one bin
\* whose printed range [previous_i, bin_range_values[i]] contains v.
C10_PrintedRangesAgree ==
    (pc = "binned" /\ bin_span = BIN_SPAN) =>
        \A i \in 0..(NUM_BINS - 1) : InPrintedRange(values[0], i) <=> i = idx

====
